---- MODULE Spec2Model ----
(***************************************************************************)
(* The application bootstrap of memory-player: src-tauri/src/lib.rs, run(). *)
(*                                                                         *)
(* run() builds a default tauri::Builder, installs a setup closure, calls  *)
(* Builder::run and unwraps its result with expect.  The closure is        *)
(* modelled statement by statement; a plugin attachment is a call and a    *)
(* return, and its outcome (Ok / Err) is chosen by the environment.  The   *)
(* host framework is the environment: it initialises the runtime, invokes  *)
(* the installed hook, runs the event loop and ends it.  Where the source  *)
(* does not decide what the framework does, every outcome is allowed.      *)
(***************************************************************************)
EXTENDS Integers, Sequences, FiniteSets, TLC

\* Number of events the event loop is followed for before it must end.
MaxEvents == 3

\* ------------------------------------------------------------------------
\* Program constants

\* lib.rs:23, the message handed to expect.
ExpectMsg == "error while running tauri application"

\* The diagnostic of a panic raised by the framework itself on a setup error.
FrameworkMsg == "setup failed inside the framework"

\* lib.rs:10, the log source that gets an override.
RunnerTarget == "tao::platform_impl::platform::event_loop::runner"

\* lib.rs:8 and lib.rs:11, the two severities the closure names.
LevelInfo == "Info"

LevelError == "Error"

\* Exit status of a process ended by a panic (expect on Err), and of a normal exit.
PanicStatus == 101

NormalStatus == 0

NoStatus == -1

\* The logging builder before tauri_plugin_log::Builder::default() is called.
NoLogBuilder == [stage |-> "absent", level |-> "Unset", targets |-> {}]

\* ------------------------------------------------------------------------
\* The setup closure, lib.rs:4-21

\* The plugin attachment statements, in source order.
PluginStmts == <<"plug_log", "plug_fs", "plug_shell", "plug_dialog", "plug_opener">>

\* The plugin a statement `app.handle().plugin(...)` attaches.
PluginOf(stmt) ==
  CASE stmt = "plug_log"    -> "log"
    [] stmt = "plug_fs"     -> "fs"
    [] stmt = "plug_shell"  -> "shell"
    [] stmt = "plug_dialog" -> "dialog"
    [] stmt = "plug_opener" -> "opener"

IsPluginStmt(stmt) == \E i \in 1..Len(PluginStmts) : PluginStmts[i] = stmt

\* A gate that ignores the build mode: the logging branch is always taken.
DebugGateAlways(d) == "log_default"

\* lib.rs:5, `if cfg!(debug_assertions) { ... }`: the statement executed next.
DebugGate(d) == IF d THEN "log_default" ELSE "plug_fs"

\* The attachments with shell and dialog exchanged.
SuccSwapped(stmt) ==
  CASE stmt = "log_default"   -> "log_level"
    [] stmt = "log_level"     -> "log_level_for"
    [] stmt = "log_level_for" -> "log_build"
    [] stmt = "log_build"     -> "plug_log"
    [] stmt = "plug_log"      -> "plug_fs"
    [] stmt = "plug_fs"       -> "plug_dialog"
    [] stmt = "plug_dialog"   -> "plug_shell"
    [] stmt = "plug_shell"    -> "plug_opener"
    [] stmt = "plug_opener"   -> "ok"

\* The attachments with the dialog plugin left out.
SuccNoDialog(stmt) ==
  CASE stmt = "log_default"   -> "log_level"
    [] stmt = "log_level"     -> "log_level_for"
    [] stmt = "log_level_for" -> "log_build"
    [] stmt = "log_build"     -> "plug_log"
    [] stmt = "plug_log"      -> "plug_fs"
    [] stmt = "plug_fs"       -> "plug_shell"
    [] stmt = "plug_shell"    -> "plug_opener"
    [] stmt = "plug_dialog"   -> "plug_opener"
    [] stmt = "plug_opener"   -> "ok"

\* The filesystem attachment moved inside the debug branch's else.
SuccFsInElse(stmt) ==
  CASE stmt = "log_default"   -> "log_level"
    [] stmt = "log_level"     -> "log_level_for"
    [] stmt = "log_level_for" -> "log_build"
    [] stmt = "log_build"     -> "plug_log"
    [] stmt = "plug_log"      -> "plug_shell"
    [] stmt = "plug_fs"       -> "plug_shell"
    [] stmt = "plug_shell"    -> "plug_dialog"
    [] stmt = "plug_dialog"   -> "plug_opener"
    [] stmt = "plug_opener"   -> "ok"

\* The statement that follows `stmt` when `stmt` completes normally.
Succ(stmt) ==
  CASE stmt = "log_default"   -> "log_level"
    [] stmt = "log_level"     -> "log_level_for"
    [] stmt = "log_level_for" -> "log_build"
    [] stmt = "log_build"     -> "plug_log"
    [] stmt = "plug_log"      -> "plug_fs"
    [] stmt = "plug_fs"       -> "plug_shell"
    [] stmt = "plug_shell"    -> "plug_dialog"
    [] stmt = "plug_dialog"   -> "plug_opener"
    [] stmt = "plug_opener"   -> "ok"

\* A call whose result is dropped (`let _ = ...;`): the closure goes on.
TryIgnore(res, stmt) == Succ(stmt)

\* A closure that starts over when an attachment fails.
TryRetry(res, stmt) == IF res = "err" THEN "if_debug" ELSE Succ(stmt)

\* The `?` after a plugin call: on Err the closure returns at once.
Try(res, stmt) == IF res = "err" THEN "done" ELSE Succ(stmt)

\* An Err that is dropped on the way out instead of being returned.
TryResultSwallow(res, old) == old

\* The value the closure returns through `?`: Err is handed to the caller.
TryResult(res, old) == IF res = "err" THEN "err" ELSE old

\* lib.rs:8, `.level(log::LevelFilter::Info)`.
SetLevel(b) == [b EXCEPT !.level = LevelInfo]

\* A builder chain without the .level_for call.
SetLevelForOmitted(b) == b

\* lib.rs:9-12, `.level_for(<runner>, log::LevelFilter::Error)`.
SetLevelFor(b) ==
  [b EXCEPT !.targets = {t \in @ : t[1] # RunnerTarget} \cup {<<RunnerTarget, LevelError>>}]

\* The Result of Builder::run dropped instead of unwrapped.
ExpectOutcomeDropped(res) == "unwrap"

\* The test of the Result inverted (expect_err).
ExpectOutcomeInverted(res) == IF res = "err" THEN "unwrap" ELSE "panic"

\* lib.rs:22-23, `.expect(...)` on the Result of Builder::run.
ExpectOutcome(res) == IF res = "err" THEN "panic" ELSE "unwrap"

VARIABLES
  debug,        \* cfg!(debug_assertions): fixed for the life of the process
  pc,           \* position of run() and of the framework it has called into
  cpc,          \* next statement of the setup closure ("idle" before, "done" after)
  hook,         \* the setup hook held by the builder: "none", "installed", "taken"
  setupCalls,   \* number of times the hook has been invoked
  inflight,     \* plugins whose attachment call has begun and not returned
  attempts,     \* plugins whose attachment was attempted, in order
  attached,     \* plugins attached successfully, in order
  logb,         \* the tauri_plugin_log builder under construction
  logcfg,       \* configuration of the logging plugin handed to plugin()
  setupResult,  \* what the closure returned: "none", "ok", "err"
  runResult,    \* what Builder::run returned: "none", "ok", "err"
  events,       \* events the loop has processed
  exit,         \* "none", "normal", "fatal"
  diag,         \* fatal diagnostic printed, "" when none
  status        \* exit status of the process, NoStatus while it lives

vars == <<debug, pc, cpc, hook, setupCalls, inflight, attempts, attached, logb,
          logcfg, setupResult, runResult, events, exit, diag, status>>

closureVars == <<cpc, inflight, attempts, attached, logb, logcfg, setupResult>>

exitVars == <<exit, diag, status>>

Init ==
  /\ debug \in BOOLEAN
  /\ pc = "start"
  /\ cpc = "idle"
  /\ hook = "none"
  /\ setupCalls = 0
  /\ inflight = {}
  /\ attempts = <<>>
  /\ attached = <<>>
  /\ logb = NoLogBuilder
  /\ logcfg = NoLogBuilder
  /\ setupResult = "none"
  /\ runResult = "none"
  /\ events = 0
  /\ exit = "none"
  /\ diag = ""
  /\ status = NoStatus

\* ------------------------------------------------------------------------
\* run(), before the framework takes over

\* lib.rs:3, tauri::Builder::default().
BuilderDefault ==
  /\ pc = "start"
  /\ pc' = "built"
  /\ UNCHANGED <<debug, hook, setupCalls, closureVars, runResult, events, exitVars>>

\* lib.rs:4, .setup(closure): the closure is stored, not run.
InstallSetup ==
  /\ pc = "built"
  /\ pc' = "hooked"
  /\ hook' = "installed"
  /\ UNCHANGED <<debug, setupCalls, closureVars, runResult, events, exitVars>>

\* lib.rs:22, .run(context): control enters the framework.
CallRun ==
  /\ pc = "hooked"
  /\ pc' = "in_run"
  /\ UNCHANGED <<debug, hook, setupCalls, closureVars, runResult, events, exitVars>>

\* Inside Builder::run: the native runtime initialises, or run returns Err.
RuntimeInit ==
  /\ pc = "in_run"
  /\ \E ok \in BOOLEAN :
       IF ok
       THEN /\ pc' = "ready"
            /\ UNCHANGED runResult
       ELSE /\ pc' = "run_returned"
            /\ runResult' = "err"
  /\ UNCHANGED <<debug, hook, setupCalls, closureVars, events, exitVars>>

\* Inside Builder::run: the framework takes the installed hook and calls it.
InvokeSetup ==
  /\ pc = "ready"
  /\ hook = "installed"
  /\ hook' = "taken"
  /\ setupCalls' = setupCalls + 1
  /\ pc' = "setup"
  /\ cpc' = "if_debug"
  /\ UNCHANGED <<debug, inflight, attempts, attached, logb, logcfg, setupResult,
                 runResult, events, exitVars>>

\* ------------------------------------------------------------------------
\* The statements of the setup closure

\* lib.rs:5, the build-mode test.
IfDebug ==
  /\ pc = "setup"
  /\ cpc = "if_debug"
  /\ cpc' = DebugGate(debug)
  /\ UNCHANGED <<debug, pc, hook, setupCalls, inflight, attempts, attached, logb,
                 logcfg, setupResult, runResult, events, exitVars>>

\* lib.rs:7, tauri_plugin_log::Builder::default().
LogDefault ==
  /\ pc = "setup"
  /\ cpc = "log_default"
  /\ logb' = [stage |-> "building", level |-> "Default", targets |-> {}]
  /\ cpc' = Succ(cpc)
  /\ UNCHANGED <<debug, pc, hook, setupCalls, inflight, attempts, attached,
                 logcfg, setupResult, runResult, events, exitVars>>

\* lib.rs:8, .level(Info).
LogLevel ==
  /\ pc = "setup"
  /\ cpc = "log_level"
  /\ logb' = SetLevel(logb)
  /\ cpc' = Succ(cpc)
  /\ UNCHANGED <<debug, pc, hook, setupCalls, inflight, attempts, attached,
                 logcfg, setupResult, runResult, events, exitVars>>

\* lib.rs:9-12, .level_for(runner, Error).
LogLevelFor ==
  /\ pc = "setup"
  /\ cpc = "log_level_for"
  /\ logb' = SetLevelFor(logb)
  /\ cpc' = Succ(cpc)
  /\ UNCHANGED <<debug, pc, hook, setupCalls, inflight, attempts, attached,
                 logcfg, setupResult, runResult, events, exitVars>>

\* lib.rs:13, .build().
LogBuild ==
  /\ pc = "setup"
  /\ cpc = "log_build"
  /\ logb' = [logb EXCEPT !.stage = "built"]
  /\ cpc' = Succ(cpc)
  /\ UNCHANGED <<debug, pc, hook, setupCalls, inflight, attempts, attached,
                 logcfg, setupResult, runResult, events, exitVars>>

\* lib.rs:6,16-19, app.handle().plugin(p): the call begins.  The logging
\* plugin is handed over as it was built.
PluginCall ==
  /\ pc = "setup"
  /\ IsPluginStmt(cpc)
  /\ PluginOf(cpc) \notin inflight
  /\ inflight' = inflight \cup {PluginOf(cpc)}
  /\ attempts' = Append(attempts, PluginOf(cpc))
  /\ logcfg' = IF cpc = "plug_log" THEN logb ELSE logcfg
  /\ UNCHANGED <<debug, pc, cpc, hook, setupCalls, attached, logb, setupResult,
                 runResult, events, exitVars>>

\* lib.rs:14,16-19, the call returns Ok or Err and `?` is applied to it.
PluginReturn ==
  /\ pc = "setup"
  /\ IsPluginStmt(cpc)
  /\ PluginOf(cpc) \in inflight
  /\ \E res \in {"ok", "err"} :
       /\ attached' = IF res = "ok" THEN Append(attached, PluginOf(cpc)) ELSE attached
       /\ cpc' = Try(res, cpc)
       /\ setupResult' = TryResult(res, setupResult)
  /\ inflight' = inflight \ {PluginOf(cpc)}
  /\ UNCHANGED <<debug, pc, hook, setupCalls, attempts, logb, logcfg, runResult,
                 events, exitVars>>

\* lib.rs:20, Ok(()).
ReturnOk ==
  /\ pc = "setup"
  /\ cpc = "ok"
  /\ setupResult' = "ok"
  /\ cpc' = "done"
  /\ UNCHANGED <<debug, pc, hook, setupCalls, inflight, attempts, attached, logb,
                 logcfg, runResult, events, exitVars>>

\* ------------------------------------------------------------------------
\* The framework after the hook has returned

\* The hook returned Ok: the event loop starts processing.
EnterLoop ==
  /\ pc = "setup"
  /\ cpc = "done"
  /\ setupResult = "ok"
  /\ pc' = "running"
  /\ UNCHANGED <<debug, hook, setupCalls, closureVars, runResult, events, exitVars>>

\* The hook returned Err inside Builder::run.  The source does not decide
\* whether the framework hands the error back as run's Err or panics itself.
SetupFailed ==
  /\ pc = "setup"
  /\ cpc = "done"
  /\ setupResult = "err"
  /\ \/ /\ pc' = "run_returned"
        /\ runResult' = "err"
        /\ UNCHANGED exitVars
     \/ /\ pc' = "aborted"
        /\ exit' = "fatal"
        /\ diag' = FrameworkMsg
        /\ status' = PanicStatus
        /\ UNCHANGED runResult
  /\ UNCHANGED <<debug, hook, setupCalls, closureVars, events>>

\* The event loop handles one event.
ProcessEvent ==
  /\ pc = "running"
  /\ events < MaxEvents
  /\ events' = events + 1
  /\ UNCHANGED <<debug, pc, hook, setupCalls, closureVars, runResult, exitVars>>

\* The application exits: the framework ends the process from inside the
\* loop, or Builder::run returns Ok(()).
LoopExit ==
  /\ pc = "running"
  /\ \/ /\ pc' = "exited"
        /\ exit' = "normal"
        /\ status' = NormalStatus
        /\ UNCHANGED <<runResult, diag>>
     \/ /\ pc' = "run_returned"
        /\ runResult' = "ok"
        /\ UNCHANGED exitVars
  /\ UNCHANGED <<debug, hook, setupCalls, closureVars, events>>

\* lib.rs:23, .expect(msg): Err panics with msg, Ok lets run() return.
Expect ==
  /\ pc = "run_returned"
  /\ IF ExpectOutcome(runResult) = "panic"
     THEN /\ pc' = "aborted"
          /\ exit' = "fatal"
          /\ diag' = ExpectMsg
          /\ status' = PanicStatus
     ELSE /\ pc' = "returned"
          /\ UNCHANGED exitVars
  /\ UNCHANGED <<debug, hook, setupCalls, closureVars, runResult, events>>

\* run() has returned to its caller, which ends the process normally.
CallerExit ==
  /\ pc = "returned"
  /\ pc' = "exited"
  /\ exit' = "normal"
  /\ status' = NormalStatus
  /\ UNCHANGED <<debug, hook, setupCalls, closureVars, runResult, events, diag>>

Next ==
  \/ BuilderDefault
  \/ InstallSetup
  \/ CallRun
  \/ RuntimeInit
  \/ InvokeSetup
  \/ IfDebug
  \/ LogDefault
  \/ LogLevel
  \/ LogLevelFor
  \/ LogBuild
  \/ PluginCall
  \/ PluginReturn
  \/ ReturnOk
  \/ EnterLoop
  \/ SetupFailed
  \/ ProcessEvent
  \/ LoopExit
  \/ Expect
  \/ CallerExit

Spec == Init /\ [][Next]_vars

\* The bootstrap thread runs every step of run() and of the framework's
\* start-up without stopping; only the end of the event loop waits on the user.
Bootstrap ==
  \/ BuilderDefault
  \/ InstallSetup
  \/ CallRun
  \/ RuntimeInit
  \/ InvokeSetup
  \/ IfDebug
  \/ LogDefault
  \/ LogLevel
  \/ LogLevelFor
  \/ LogBuild
  \/ PluginCall
  \/ PluginReturn
  \/ ReturnOk
  \/ EnterLoop
  \/ SetupFailed
  \/ Expect
  \/ CallerExit

FairSpec == Spec /\ WF_vars(Bootstrap)

\* ------------------------------------------------------------------------
\* Vocabulary of the properties

\* The fixed attachment order of a build.
FixedOrder(d) ==
  IF d THEN <<"log", "fs", "shell", "dialog", "opener">>
       ELSE <<"fs", "shell", "dialog", "opener">>

IsPrefix(s, t) == Len(s) <= Len(t) /\ SubSeq(t, 1, Len(s)) = s

Range(s) == {s[i] : i \in 1..Len(s)}

\* An attachment has returned Err: it was attempted, is no longer in
\* flight, and is not attached.
SomeAttachFailed == Len(attempts) > Len(attached) + Cardinality(inflight)

\* Positions of run() that belong to Initializing.
InitPcs == {"start", "built", "hooked", "in_run", "ready", "setup"}

\* ------------------------------------------------------------------------
\* C1: the attachments attempted are a prefix of the fixed order of the build
\* (logging first in a debug build, then filesystem, shell, dialog, opener);
\* a plugin is attempted only when every attempt before it has attached, so
\* none is attempted twice; and at most one attachment is in flight.
C1_AttachmentOrder ==
  /\ IsPrefix(attempts, FixedOrder(debug))
  /\ IsPrefix(attached, attempts)
  /\ Len(attempts) - Len(attached) <= 1
  /\ Cardinality(inflight) <= 1
  /\ inflight \subseteq (IF attempts = <<>> THEN {} ELSE {attempts[Len(attempts)]})
  /\ \A i, j \in 1..Len(attempts) : attempts[i] = attempts[j] => i = j

C1_Witness ==
  /\ debug
  /\ attempts = <<"log", "fs", "shell", "dialog", "opener">>
  /\ inflight = {"opener"}
  /\ attached = <<"log", "fs", "shell", "dialog">>

\* C2: once an attachment has failed, the closure is over with the failed
\* attempt as its last one, it has returned Err to its caller and not Ok, and
\* from then on no plugin is attempted and the result stays Err.
C2_FailFast ==
  /\ [](SomeAttachFailed =>
          /\ cpc = "done"
          /\ inflight = {}
          /\ setupResult = "err"
          /\ attached = SubSeq(attempts, 1, Len(attempts) - 1))
  /\ [][SomeAttachFailed =>
          /\ attempts' = attempts
          /\ attached' = attached
          /\ setupResult' = "err"]_vars

C2_Witness ==
  /\ debug
  /\ attempts = <<"log">>
  /\ attached = <<>>
  /\ inflight = {}
  /\ setupResult = "err"

\* C3: in a release build the logging plugin is never built, attempted or
\* attached; in a debug build the first attachment attempted is logging.
C3_LoggingGate ==
  /\ ~debug => /\ "log" \notin Range(attempts)
               /\ "log" \notin Range(attached)
               /\ "log" \notin inflight
               /\ logb.stage = "absent"
               /\ logcfg.stage = "absent"
  /\ debug => (attempts # <<>> => attempts[1] = "log")

C3_Witness ==
  /\ ~debug
  /\ exit = "normal"
  /\ attached = <<"fs", "shell", "dialog", "opener">>

\* C4: while the event loop is active the setup hook has returned Ok, no
\* attachment is in flight, filesystem, shell, dialog and opener are attached,
\* and logging is attached exactly in a debug build.
C4_RunningMeansSetupDone ==
  pc = "running" =>
    /\ setupResult = "ok"
    /\ cpc = "done"
    /\ inflight = {}
    /\ {"fs", "shell", "dialog", "opener"} \subseteq Range(attached)
    /\ ("log" \in Range(attached)) <=> debug
    /\ Len(attached) = IF debug THEN 5 ELSE 4

C4_Witness ==
  /\ pc = "running"
  /\ debug
  /\ events > 0

\* C5: when Builder::run has returned Err, the next step of run() is the
\* panic of expect: fatal exit, the expect message, a non-zero status.  The
\* application is never Running after that failure, run() never returns to
\* its caller, and the process does end.
C5_RunFailureIsFatal ==
  /\ [](runResult = "err" => pc \in {"run_returned", "aborted"})
  /\ [](runResult = "err" /\ pc = "aborted" =>
          exit = "fatal" /\ diag = "error while running tauri application" /\ status # 0)
  /\ [][runResult = "err" /\ pc = "run_returned" =>
          pc' = "aborted" /\ exit' = "fatal" /\ status' # 0]_vars
  /\ (runResult = "err") ~> (exit = "fatal")

C5_Witness ==
  /\ runResult = "err"
  /\ attempts = <<>>
  /\ exit = "fatal"
  /\ diag = "error while running tauri application"
  /\ status = 101

\* C6: a failed attachment is fatal.  After it the application is never
\* Running, no event is processed, the process never exits normally and does
\* end in the fatal state; when the filesystem attachment is the one that
\* failed, shell, dialog and opener are never attempted.
C6_SetupFailureIsFatal ==
  /\ [](SomeAttachFailed =>
          /\ pc \in {"setup", "run_returned", "aborted"}
          /\ events = 0
          /\ exit # "normal"
          /\ runResult # "ok")
  /\ []("fs" \in Range(attempts) /\ "fs" \notin Range(attached) /\ "fs" \notin inflight =>
          Range(attempts) \cap {"shell", "dialog", "opener"} = {})
  /\ SomeAttachFailed ~> (exit = "fatal" /\ diag # "" /\ status # 0)

C6_Witness ==
  /\ ~debug
  /\ attempts = <<"fs">>
  /\ attached = <<>>
  /\ exit = "fatal"

\* C7: in a debug build the logging plugin handed to plugin() is a built one
\* with minimum severity Info and exactly one override, which sets the
\* event-loop runner source to Error.
C7_LoggingConfig ==
  debug /\ "log" \in Range(attempts) =>
    /\ logcfg.stage = "built"
    /\ logcfg.level = "Info"
    /\ logcfg.targets = {<<"tao::platform_impl::platform::event_loop::runner", "Error">>}
    /\ Cardinality(logcfg.targets) = 1

C7_Witness ==
  /\ debug
  /\ "log" \in Range(attached)
  /\ pc = "running"

\* C8: when every attachment of the build's order has succeeded the hook
\* returns Ok and the application goes on to Running; it leaves Running only
\* when the loop ends; and a debug and a release execution that are Running
\* differ in the attached set by the logging plugin alone.
C8_HappyPath ==
  /\ (pc = "setup" /\ attached = FixedOrder(debug)) ~> (pc = "running")
  /\ [](attached = FixedOrder(debug) => setupResult # "err")
  /\ [][pc = "running" =>
          \/ pc' = "running"
          \/ pc' = "exited" /\ exit' = "normal"
          \/ pc' = "run_returned" /\ runResult' = "ok"]_vars
  /\ [](pc = "running" =>
          /\ SelectSeq(attached, LAMBDA p : p # "log") = <<"fs", "shell", "dialog", "opener">>
          /\ attached = (IF debug THEN <<"log">> ELSE <<>>) \o <<"fs", "shell", "dialog", "opener">>)

C8_Witness ==
  /\ ~debug
  /\ pc = "running"
  /\ events > 0
  /\ attached = <<"fs", "shell", "dialog", "opener">>

\* C9: once run() has left Initializing it never returns to it; the process
\* exits once; a normal exit comes only from the end of the run loop after a
\* successful setup, a fatal exit only from a setup failure or a run failure.
C9_Lifecycle ==
  /\ [][pc \notin InitPcs => pc' \notin InitPcs]_vars
  /\ [][exit # "none" => exit' = exit /\ pc' = pc]_vars
  /\ [][exit = "none" /\ exit' = "normal" =>
          pc = "running" \/ (pc = "returned" /\ runResult = "ok")]_vars
  /\ [][exit = "none" /\ exit' = "fatal" =>
          \/ pc = "run_returned" /\ runResult = "err"
          \/ pc = "setup" /\ setupResult = "err"]_vars
  /\ [](exit = "normal" => setupResult = "ok" /\ runResult # "err")
  /\ [](exit = "fatal" => setupResult = "err" \/ runResult = "err")

C9_Witness ==
  /\ exit = "normal"
  /\ pc = "exited"
  /\ runResult = "ok"
  /\ events > 0

\* C10: the hook is invoked at most once; its body is entered only from the
\* state in which it has never run, so it is not run again after a failure
\* or a success; it has returned before the loop processes an event.
C10_SetupOnce ==
  /\ [](setupCalls <= 1)
  /\ [](pc = "running" \/ events > 0 => setupCalls = 1 /\ cpc = "done")
  /\ [][cpc' = "if_debug" /\ cpc # "if_debug" => cpc = "idle" /\ setupCalls = 0]_vars
  /\ [][cpc = "done" => cpc' = "done" /\ setupCalls' = setupCalls]_vars

C10_Witness ==
  /\ setupCalls = 1
  /\ setupResult = "err"
  /\ exit = "fatal"
  /\ Len(attempts) = 3
====
